---- MODULE Spec2Model ----
(***************************************************************************)
(* A model of questions.py: the tokenizer, the IDF engine, the document    *)
(* ranker, the sentence ranker and the orchestrator (main).                *)
(*                                                                         *)
(* Text is a sequence of one-character strings.  A Python dict is a        *)
(* sequence of records [k |-> key, v |-> value] with distinct keys, in     *)
(* insertion order; a table whose order is never observed (the IDF table)  *)
(* is a function.  Natural logarithms are kept in thousandths (Ln).        *)
(***************************************************************************)
EXTENDS Integers, Sequences, FiniteSets, TLC

VARIABLES call, pc, files, file_words, file_idfs, query, filenames, sentences, idfs, matches

vars == <<call, pc, files, file_words, file_idfs, query, filenames, sentences, idfs, matches>>

mainVars == <<pc, files, file_words, file_idfs, query, filenames, sentences, idfs, matches>>

(***************************************************************************)
(* Bounds of the model.                                                    *)
(***************************************************************************)
MaxDocs == 3

MaxWords == 2

MaxFiles == 2

(***************************************************************************)
(* Program constants.                                                      *)
(***************************************************************************)
FILE_MATCHES == 1

SENTENCE_MATCHES == 1

\* the grave accent, which a TLA+ string cannot hold
Grave == "grave"

\* string.punctuation, character by character
PUNCTUATIONS == <<"!", "\"", "#", "$", "%", "&", "'", "(", ")", "*", "+", ",", "-", ".", "/", ":", ";", "<", "=", ">", "?", "@", "[", "\\", "]", "^", "_", Grave, "{", "|", "}", "~">>

\* a part of nltk's English stopword list
STOP_WORDS == {<<"t", "h", "e">>, <<"i", "s">>, <<"a">>}

(***************************************************************************)
(* Sequences and sets.                                                     *)
(***************************************************************************)
Range(s) == {s[i] : i \in 1..Len(s)}

Min(a, b) == IF a <= b THEN a ELSE b

\* s[:n]
Take(s, n) == SubSeq(s, 1, Min(n, Len(s)))

\* list.count(x)
Count(s, x) == Cardinality({i \in 1..Len(s) : s[i] = x})

Reverse(s) == [i \in 1..Len(s) |-> s[Len(s) + 1 - i]]

RECURSIVE SumOver(_, _)
SumOver(S, f) == IF S = {} THEN 0 ELSE LET x == CHOOSE y \in S : TRUE IN f[x] + SumOver(S \ {x}, f)

\* all sequences over S of length 0..n
RECURSIVE SeqsUpTo(_, _)
SeqsUpTo(S, n) == IF n = 0 THEN {<<>>} ELSE LET T == SeqsUpTo(S, n - 1) IN T \cup {Append(t, x) : t \in {u \in T : Len(u) = n - 1}, x \in S}

Perms(n) == {p \in [1..n -> 1..n] : \A i, j \in 1..n : p[i] = p[j] => i = j}

Permute(s, p) == [i \in 1..Len(s) |-> s[p[i]]]

(***************************************************************************)
(* Strings.                                                                *)
(***************************************************************************)
UpperCase == <<"A", "B", "C", "D", "E", "F", "G", "H", "I", "J", "K", "L", "M", "N", "O", "P", "Q", "R", "S", "T", "U", "V", "W", "X", "Y", "Z">>

LowerCase == <<"a", "b", "c", "d", "e", "f", "g", "h", "i", "j", "k", "l", "m", "n", "o", "p", "q", "r", "s", "t", "u", "v", "w", "x", "y", "z">>

LowerChar(c) == IF \E i \in 1..26 : UpperCase[i] = c THEN LowerCase[CHOOSE i \in 1..26 : UpperCase[i] = c] ELSE c

\* str.lower()
Lower(text) == [i \in 1..Len(text) |-> LowerChar(text[i])]

\* str.split(sep) for a one-character sep: empty pieces are kept
RECURSIVE SplitFrom(_, _, _, _)
SplitFrom(text, sep, i, cur) == IF i > Len(text) THEN <<cur>> ELSE IF text[i] = sep THEN <<cur>> \o SplitFrom(text, sep, i + 1, <<>>) ELSE SplitFrom(text, sep, i + 1, Append(cur, text[i]))

Split(text, sep) == SplitFrom(text, sep, 1, <<>>)

\* sep.join(parts)
RECURSIVE Join(_, _)
Join(parts, sep) == IF parts = <<>> THEN <<>> ELSE IF Len(parts) = 1 THEN parts[1] ELSE parts[1] \o <<sep>> \o Join(Tail(parts), sep)

\* `w in s` on strings: w is a substring of s
IsSubstring(w, s) == \E i \in 0..(Len(s) - Len(w)) : SubSeq(s, i + 1, i + Len(w)) = w

\* str.count(w): the non-overlapping occurrences of w, left to right
RECURSIVE CountSubFrom(_, _, _)
CountSubFrom(text, w, i) == IF i + Len(w) - 1 > Len(text) THEN 0 ELSE IF SubSeq(text, i, i + Len(w) - 1) = w THEN 1 + CountSubFrom(text, w, i + Len(w)) ELSE CountSubFrom(text, w, i + 1)

StrCount(text, w) == CountSubFrom(text, w, 1)

(***************************************************************************)
(* The external tokenizers.  word_tokenize is modelled on text whose       *)
(* tokens are separated by single spaces, where it splits at the spaces;   *)
(* sent_tokenize ends a sentence after a "." or "?" that a space or the    *)
(* end of the text follows.                                                *)
(***************************************************************************)
WordTokenize(text) == SelectSeq(Split(text, " "), LAMBDA w : w # <<>>)

RECURSIVE SentFrom(_, _, _)
SentFrom(text, i, cur) == IF i > Len(text) THEN (IF cur = <<>> THEN <<>> ELSE <<cur>>) ELSE IF text[i] \in {".", "?"} /\ (i = Len(text) \/ text[i + 1] = " ") THEN <<Append(cur, text[i])>> \o SentFrom(text, i + 2, <<>>) ELSE SentFrom(text, i + 1, Append(cur, text[i]))

SentTokenize(passage) == SentFrom(passage, 1, <<>>)

(***************************************************************************)
(* tokenize                                                                *)
(***************************************************************************)
\* the filter of the list comprehension
KeepWord(word) == word \notin STOP_WORDS /\ ~IsSubstring(word, PUNCTUATIONS)

tokenize(document) == SelectSeq(WordTokenize(Lower(document)), KeepWord)

(***************************************************************************)
(* Python dicts, in insertion order.                                       *)
(***************************************************************************)
Keys(d) == [i \in 1..Len(d) |-> d[i].k]

HasKey(d, key) == \E i \in 1..Len(d) : d[i].k = key

Lookup(d, key) == d[CHOOSE i \in 1..Len(d) : d[i].k = key].v

\* d[key] = value: a new key goes last, a known key keeps its place
Store(d, key, value) == IF HasKey(d, key) THEN [i \in 1..Len(d) |-> IF d[i].k = key THEN [k |-> key, v |-> value] ELSE d[i]] ELSE Append(d, [k |-> key, v |-> value])

\* sorted(items, key=..., reverse=True), gt[i][j] telling whether the key of
\* items[i] is greater than that of items[j]: descending, and stable, so that
\* items with equal keys keep the order they had in `items`
SortedReverse(items, gt) == LET n == Len(items)
                                rank(i) == 1 + Cardinality({j \in 1..n : gt[j][i]}) + Cardinality({j \in 1..(i - 1) : ~gt[j][i] /\ ~gt[i][j]})
                            IN [r \in 1..n |-> items[CHOOSE i \in 1..n : rank(i) = r]]

(***************************************************************************)
(* compute_idfs                                                            *)
(***************************************************************************)
\* ln(1) .. ln(8) in thousandths; Ln[a * b] = Ln[a] + Ln[b] holds in the table
Ln == <<0, 693, 1099, 1386, 1609, 1792, 1946, 2079>>

\* math.log(num_documents / v)
Log(num_documents, v) == Ln[num_documents] - Ln[v]

\* a slice that starts one document late
RemainingDocumentsLate(words_from_documents, idx) == SubSeq(words_from_documents, idx + 1, Len(words_from_documents))

\* words_from_documents[idx:], idx counted from 1
RemainingDocuments(words_from_documents, idx) == SubSeq(words_from_documents, idx, Len(words_from_documents))

\* the innermost loop: one more for every remaining document holding the word
CountRemaining(word, words_from_remaining_documents) == Cardinality({i \in 1..Len(words_from_remaining_documents) : word \in Range(words_from_remaining_documents[i])})

\* the loop over the words of one document, left at the first known word
RECURSIVE ScanWordsBreak(_, _, _, _)
ScanWordsBreak(words, j, words_from_remaining_documents, word_to_frequency) == IF j > Len(words) THEN word_to_frequency ELSE IF words[j] \in DOMAIN word_to_frequency THEN word_to_frequency ELSE ScanWordsBreak(words, j + 1, words_from_remaining_documents, word_to_frequency @@ (words[j] :> CountRemaining(words[j], words_from_remaining_documents)))

\* the loop over the words of one document
RECURSIVE ScanWords(_, _, _, _)
ScanWords(words, j, words_from_remaining_documents, word_to_frequency) == IF j > Len(words) THEN word_to_frequency ELSE IF words[j] \in DOMAIN word_to_frequency THEN ScanWords(words, j + 1, words_from_remaining_documents, word_to_frequency) ELSE ScanWords(words, j + 1, words_from_remaining_documents, word_to_frequency @@ (words[j] :> CountRemaining(words[j], words_from_remaining_documents)))

\* the loop over the documents
RECURSIVE ScanDocuments(_, _, _)
ScanDocuments(words_from_documents, idx, word_to_frequency) == IF idx > Len(words_from_documents) THEN word_to_frequency ELSE ScanDocuments(words_from_documents, idx + 1, ScanWords(words_from_documents[idx], 1, RemainingDocuments(words_from_documents, idx), word_to_frequency))

compute_idfs(documents) == LET num_documents == Len(documents)
                               words_from_documents == [i \in 1..num_documents |-> documents[i].v]
                               word_to_frequency == ScanDocuments(words_from_documents, 1, <<>>)
                               common_word_to_frequency == {k \in DOMAIN word_to_frequency : word_to_frequency[k] # 0}
                           IN [k \in common_word_to_frequency |-> Log(num_documents, word_to_frequency[k])]

(***************************************************************************)
(* top_files                                                               *)
(***************************************************************************)
\* idfs.get(word, 1)
IdfsGetOne(table, word) == IF word \in DOMAIN table THEN table[word] ELSE 1

\* idfs.get(word, 0)
IdfsGet(table, word) == IF word \in DOMAIN table THEN table[word] ELSE 0

\* the loop over the query for one file
TfIdf(q, words, table) == SumOver(q, [word \in q |-> Count(words, word) * IdfsGet(table, word)])

FileToTfidf(q, fs, table) == [i \in 1..Len(fs) |-> [k |-> fs[i].k, v |-> TfIdf(q, fs[i].v, table)]]

\* the order without reverse=True
FileLt(a, b) == a.v < b.v

FileGt(a, b) == a.v > b.v

\* no sort at all
SortFilesMissing(file_to_tfidf) == file_to_tfidf

\* sorted(...)[::-1]: ascending, then reversed, which reverses equal items too
SortFilesThenReverse(file_to_tfidf) == Reverse(SortedReverse(file_to_tfidf, [i \in 1..Len(file_to_tfidf) |-> [j \in 1..Len(file_to_tfidf) |-> FileLt(file_to_tfidf[i], file_to_tfidf[j])]]))

SortFiles(file_to_tfidf) == SortedReverse(file_to_tfidf, [i \in 1..Len(file_to_tfidf) |-> [j \in 1..Len(file_to_tfidf) |-> FileGt(file_to_tfidf[i], file_to_tfidf[j])]])

top_files(q, fs, table, n) == Take(Keys(SortFiles(FileToTfidf(q, fs, table))), n)

(***************************************************************************)
(* top_sentences                                                           *)
(***************************************************************************)
\* the sum of the idfs of the query words the sentence's word list holds
SentenceIdf(q, words, table) == SumOver(q, [word \in q |-> IF word \in Range(words) THEN IdfsGet(table, word) ELSE 0])

\* num_word_in_sentence: sentence.count(word) summed over the query
NumWordInSentence(q, sentence) == SumOver(q, [word \in q |-> StrCount(sentence, word)])

\* num_word_in_sentence / len(sentences[sentence]), as a fraction
Density(q, sentence, words) == [num |-> NumWordInSentence(q, sentence), den |-> Len(words)]

\* the division raises ZeroDivisionError for a sentence with no words
TopSentencesRaises(ss) == \E i \in 1..Len(ss) : Len(ss[i].v) = 0

SentenceMap(q, ss, table) == [i \in 1..Len(ss) |-> [k |-> ss[i].k, v |-> [idf |-> SentenceIdf(q, ss[i].v, table), density |-> Density(q, ss[i].k, ss[i].v)]]]

FracGt(x, y) == x.num * y.den > y.num * x.den

\* the order of the tuples (idf, density)
SentenceGt(a, b) == a.v.idf > b.v.idf \/ (a.v.idf = b.v.idf /\ FracGt(a.v.density, b.v.density))

SortSentences(sentence_map) == SortedReverse(sentence_map, [i \in 1..Len(sentence_map) |-> [j \in 1..Len(sentence_map) |-> SentenceGt(sentence_map[i], sentence_map[j])]])

top_sentences(q, ss, table, n) == Take(Keys(SortSentences(SentenceMap(q, ss, table))), n)

(***************************************************************************)
(* main                                                                    *)
(***************************************************************************)
RECURSIVE Flatten(_)
Flatten(lists) == IF lists = <<>> THEN <<>> ELSE lists[1] \o Flatten(Tail(lists))

\* the sentences of one file, passage by passage
FileSentences(text) == LET passages == Split(text, "\n") IN Flatten([i \in 1..Len(passages) |-> SentTokenize(passages[i])])

\* the body of the innermost loop without `if tokens`
AddSentenceAlways(ss, sentence) == Store(ss, sentence, tokenize(sentence))

\* the body of the innermost loop: a sentence is kept if it has tokens
AddSentence(ss, sentence) == LET tokens == tokenize(sentence) IN IF tokens # <<>> THEN Store(ss, sentence, tokens) ELSE ss

RECURSIVE AddSentences(_, _, _)
AddSentences(ss, list, i) == IF i > Len(list) THEN ss ELSE AddSentences(AddSentence(ss, list[i]), list, i + 1)

\* the loop over the top files
ExtractSentences(fs, names) == AddSentences(<<>>, Flatten([i \in 1..Len(names) |-> FileSentences(Lookup(fs, names[i]))]), 1)

(***************************************************************************)
(* The inputs the operations are called with.                              *)
(***************************************************************************)
sun == <<"s", "u", "n">>

hot == <<"h", "o", "t">>

suns == <<"s", "u", "n", "s">>

moon == <<"m", "o", "o", "n">>

\* the words documents and queries are written with
RawWords == {sun, <<"S", "u", "n">>, hot, suns, <<"t", "h", "e">>, <<".">>, <<".", ".", ".">>, <<"-", "-">>}

Documents == {Join(ws, " ") : ws \in SeqsUpTo(RawWords, MaxWords)}

DocIds == <<"a", "b", "c", "d", "e">>

\* token lists of documents
WordLists == {<<>>, <<sun>>, <<hot>>, <<sun, hot>>, <<sun, sun, hot>>}

\* dicts of 0..MaxDocs documents, named in insertion order
Mappings == UNION {{[i \in 1..n |-> [k |-> DocIds[i], v |-> ws[i]]] : ws \in [1..n -> WordLists]} : n \in 0..MaxDocs}

QuerySets == SUBSET {sun, hot}

IdfValues == {693, 1099}

\* idfs tables over the two tokens, the idf of sun fixed
IdfTables == {table \in UNION {[D -> IdfValues] : D \in SUBSET {sun, hot}} : sun \in DOMAIN table => table[sun] = 693}

\* raw sentences, each with at least one token
SentenceTexts == {<<"S", "u", "n", " ", "h", "o", "t">>, Join(<<sun, hot>>, " "), Join(<<<<"t", "h", "e">>, sun>>, " "), Join(<<suns, sun>>, " "), Join(<<sun, hot, hot>>, " "), hot}

\* dicts of 0..MaxDocs distinct sentences with their tokens
SentenceMappings == {[i \in 1..Len(ts) |-> [k |-> ts[i], v |-> tokenize(ts[i])]] : ts \in {t \in SeqsUpTo(SentenceTexts, MaxDocs) : \A i, j \in 1..Len(t) : t[i] = t[j] => i = j}}

\* the contents of the files of a corpus
FileTexts == {<<>>, Join(<<<<"t", "h", "e">>, <<"i", "s">>, <<".">>>>, " "), Join(<<<<"t", "h", "e">>, sun, <<"i", "s">>, hot, <<".">>, <<"t", "h", "e">>, <<"i", "s">>, <<".">>>>, " "), Join(<<<<"S", "u", "n">>, hot, <<"?">>>>, " ") \o <<"\n">> \o Join(<<suns, sun, <<".">>>>, " "), Join(<<hot, sun, <<".", ".", ".">>, sun>>, " ")}

Corpora == UNION {{[i \in 1..n |-> [k |-> DocIds[i], v |-> ts[i]]] : ts \in [1..n -> FileTexts]} : n \in 0..MaxFiles}

\* what the user may type at the prompt
QueryTexts == {<<>>, sun, Join(<<<<"H", "o", "t">>, sun>>, " "), Join(<<<<"t", "h", "e">>, moon>>, " ")}

(***************************************************************************)
(* The state: `call` is the last call of one of the functions, with its    *)
(* arguments and what it returned, one call a run; the other variables    *)
(* are main's.                                                             *)
(***************************************************************************)
Init == /\ call = [op |-> "none"]
        /\ pc = "start"
        /\ files = <<>>
        /\ file_words = <<>>
        /\ file_idfs = <<>>
        /\ query = {}
        /\ filenames = <<>>
        /\ sentences = <<>>
        /\ idfs = <<>>
        /\ matches = <<>>

CallTokenize == /\ call.op = "none"
                /\ \E document \in Documents : call' = [op |-> "tokenize", document |-> document, words |-> tokenize(document)]
                /\ UNCHANGED mainVars

\* compute_idfs on a mapping and on the mapping in another insertion order
CallComputeIdfs == /\ call.op = "none"
                   /\ \E documents \in Mappings : \E p \in Perms(Len(documents)) : call' = [op |-> "compute_idfs", documents |-> documents, permuted |-> Permute(documents, p), idfs |-> compute_idfs(documents), idfs_permuted |-> compute_idfs(Permute(documents, p))]
                   /\ UNCHANGED mainVars

CallTopFiles == /\ call.op = "none"
                /\ \E q \in QuerySets, fs \in Mappings, table \in IdfTables, n \in 1..(MaxDocs + 1) : call' = [op |-> "top_files", query |-> q, files |-> fs, idfs |-> table, n |-> n, file_to_tfidf |-> FileToTfidf(q, fs, table), result |-> top_files(q, fs, table, n)]
                /\ UNCHANGED mainVars

\* top_files for all the files, on a mapping and on the mapping in another insertion order
CallTopFilesPermuted == /\ call.op = "none"
                        /\ \E q \in QuerySets, fs \in Mappings, table \in IdfTables : \E p \in Perms(Len(fs)) : call' = [op |-> "top_files_permuted", query |-> q, files |-> fs, idfs |-> table, n |-> Len(fs), permuted |-> Permute(fs, p), result |-> top_files(q, fs, table, Len(fs)), result_permuted |-> top_files(q, Permute(fs, p), table, Len(fs))]
                        /\ UNCHANGED mainVars

CallTopSentences == /\ call.op = "none"
                    /\ \E q \in QuerySets, ss \in SentenceMappings, table \in IdfTables, n \in 1..(MaxDocs + 1) : call' = [op |-> "top_sentences", query |-> q, sentences |-> ss, idfs |-> table, n |-> n, raised |-> TopSentencesRaises(ss), sentence_map |-> IF TopSentencesRaises(ss) THEN <<>> ELSE SentenceMap(q, ss, table), result |-> IF TopSentencesRaises(ss) THEN <<>> ELSE top_sentences(q, ss, table, n)]
                    /\ UNCHANGED mainVars

Next == \/ CallTokenize
        \/ CallComputeIdfs
        \/ CallTopFiles
        \/ CallTopFilesPermuted
        \/ CallTopSentences

Spec == Init /\ [][Next]_vars

(***************************************************************************)
(* main, step by step.                                                     *)
(***************************************************************************)
\* a wrong argument count ends the run
MainUsage == /\ pc = "start"
             /\ pc' = "usage"
             /\ UNCHANGED <<call, files, file_words, file_idfs, query, filenames, sentences, idfs, matches>>

MainLoad == /\ pc = "start"
            /\ \E fs \in Corpora : /\ files' = fs
                                   /\ file_words' = [i \in 1..Len(fs) |-> [k |-> fs[i].k, v |-> tokenize(fs[i].v)]]
            /\ file_idfs' = compute_idfs(file_words')
            /\ pc' = "prompt"
            /\ UNCHANGED <<call, query, filenames, sentences, idfs, matches>>

MainPrompt == /\ pc = "prompt"
              /\ \E text \in QueryTexts : query' = Range(tokenize(text))
              /\ pc' = "top_files"
              /\ UNCHANGED <<call, files, file_words, file_idfs, filenames, sentences, idfs, matches>>

MainTopFiles == /\ pc = "top_files"
                /\ filenames' = top_files(query, file_words, file_idfs, FILE_MATCHES)
                /\ pc' = "extract"
                /\ UNCHANGED <<call, files, file_words, file_idfs, query, sentences, idfs, matches>>

MainExtract == /\ pc = "extract"
               /\ sentences' = ExtractSentences(files, filenames)
               /\ pc' = "compute_idfs"
               /\ UNCHANGED <<call, files, file_words, file_idfs, query, filenames, idfs, matches>>

MainComputeIdfs == /\ pc = "compute_idfs"
                   /\ idfs' = compute_idfs(sentences)
                   /\ pc' = "top_sentences"
                   /\ UNCHANGED <<call, files, file_words, file_idfs, query, filenames, sentences, matches>>

\* the matches are printed, unless the density division raised
MainTopSentences == /\ pc = "top_sentences"
                    /\ IF TopSentencesRaises(sentences) THEN pc' = "ZeroDivisionError" /\ UNCHANGED matches ELSE pc' = "done" /\ matches' = top_sentences(query, sentences, idfs, SENTENCE_MATCHES)
                    /\ UNCHANGED <<call, files, file_words, file_idfs, query, filenames, sentences, idfs>>

NextMain == \/ MainUsage
            \/ MainLoad
            \/ MainPrompt
            \/ MainTopFiles
            \/ MainExtract
            \/ MainComputeIdfs
            \/ MainTopSentences

SpecMain == Init /\ [][NextMain]_vars

(***************************************************************************)
(* What the specification says of the functions, stated apart from the     *)
(* code's way of computing it.                                             *)
(***************************************************************************)
\* the tokens occurring in at least one document
Vocabulary(documents) == UNION {Range(documents[i].v) : i \in 1..Len(documents)}

\* df(t): the documents of the whole mapping that hold t
DocumentFrequency(documents, t) == Cardinality({i \in 1..Len(documents) : \E j \in 1..Len(documents[i].v) : documents[i].v[j] = t})

\* the sum, over the positions of `words` that hold a word of q, of the word's idf
RECURSIVE OccurrenceSum(_, _, _)
OccurrenceSum(q, words, table) == IF words = <<>> THEN 0 ELSE (IF Head(words) \in q /\ Head(words) \in DOMAIN table THEN table[Head(words)] ELSE 0) + OccurrenceSum(q, Tail(words), table)

\* matched_idf: each query word of the table that the words hold, once
MatchedIdf(q, words, table) == LET present == {t \in q \cap DOMAIN table : \E j \in 1..Len(words) : words[j] = t} IN SumOver(present, [t \in present |-> table[t]])

\* the density of the specification: occurrences of query words among the tokens
TokenDensity(q, words) == [num |-> Cardinality({j \in 1..Len(words) : words[j] \in q}), den |-> Len(words)]

IndexOf(s, x) == CHOOSE i \in 1..Len(s) : s[i] = x

Distinct(s) == \A i, j \in 1..Len(s) : s[i] = s[j] => i = j

AllPunctuation(word) == \A i \in 1..Len(word) : word[i] \in Range(PUNCTUATIONS)

\* C1: compute_idfs returns a table whose keys are exactly the tokens of the
\* documents, each token t mapped to ln(N / df(t)), df(t) counting the
\* documents of the whole mapping that hold t, however often.
C1_IdfTable == call.op = "compute_idfs" => /\ DOMAIN call.idfs = Vocabulary(call.documents)
                                           /\ \A t \in DOMAIN call.idfs : call.idfs[t] = Ln[Len(call.documents)] - Ln[DocumentFrequency(call.documents, t)]

\* a token absent from the first document, twice in the second, once in the third
C1_Witness == /\ call.op = "compute_idfs"
              /\ Len(call.documents) = 3
              /\ \E t \in DOMAIN call.idfs : /\ Count(call.documents[1].v, t) = 0
                                             /\ Count(call.documents[2].v, t) = 2
                                             /\ Count(call.documents[3].v, t) = 1
                                             /\ call.idfs[t] = 406

\* C2: top_files returns min(n, number of files) distinct document ids, the
\* scores not increasing along the result, and no omitted document scoring
\* more than a returned one; the score is the sum over the query of
\* occurrences times idf, a word outside the table counting 0.
C2_TopFiles == call.op = "top_files" => LET r == call.result
                                            score(d) == OccurrenceSum(call.query, Lookup(call.files, d), call.idfs)
                                        IN /\ Len(r) = Min(call.n, Len(call.files))
                                           /\ Distinct(r)
                                           /\ Range(r) \subseteq Range(Keys(call.files))
                                           /\ \A i, j \in 1..Len(r) : i < j => score(r[i]) >= score(r[j])
                                           /\ \A d \in Range(Keys(call.files)) \ Range(r) : \A i \in 1..Len(r) : score(d) <= score(r[i])

\* three files with three different scores, the last inserted ranked first, one omitted
C2_Witness == /\ call.op = "top_files"
              /\ Len(call.files) = 3
              /\ call.n = 2
              /\ call.result[1] = call.files[3].k
              /\ call.result[2] = call.files[1].k
              /\ call.file_to_tfidf[3].v > call.file_to_tfidf[1].v
              /\ call.file_to_tfidf[1].v > call.file_to_tfidf[2].v

\* C3: top_sentences orders the sentences by (matched_idf, density), both
\* descending, the density being that of the token sequence: a sentence never
\* follows one with a smaller matched_idf, nor one with the same matched_idf
\* and a smaller density.
C3_SentenceOrder == (call.op = "top_sentences" /\ ~call.raised) => LET ranked == top_sentences(call.query, call.sentences, call.idfs, Len(call.sentences))
                                                                       m(s) == MatchedIdf(call.query, Lookup(call.sentences, s), call.idfs)
                                                                       d(s) == TokenDensity(call.query, Lookup(call.sentences, s))
                                                                   IN /\ call.result = Take(ranked, call.n)
                                                                      /\ \A i, j \in 1..Len(ranked) : i < j => \/ m(ranked[i]) > m(ranked[j])
                                                                                                               \/ m(ranked[i]) = m(ranked[j]) /\ ~FracGt(d(ranked[j]), d(ranked[i]))

\* C4: the density top_sentences ranks a sentence by is the number of
\* occurrences of query words in the sentence's token sequence over the length
\* of the token sequence.
C4_DensityFromTokens == (call.op = "top_sentences" /\ ~call.raised) => \A i \in 1..Len(call.sentences) : call.sentence_map[i].v.density = TokenDensity(call.query, call.sentences[i].v)

\* C5, as claimed: top_files for all the files returns the same sequence on
\* the mapping and on the mapping in any other insertion order.
C5_SameRanking == call.op = "top_files_permuted" => call.result = call.result_permuted

\* C5, amended: the two results hold all the documents, with the same score at
\* every rank; documents of equal score follow the insertion order of the
\* mapping they were ranked from; the results are the same sequence when no two
\* documents have the same score.
C5_SameScores == call.op = "top_files_permuted" => LET r == call.result
                                                       rp == call.result_permuted
                                                       score(d) == OccurrenceSum(call.query, Lookup(call.files, d), call.idfs)
                                                       ids == Range(Keys(call.files))
                                                   IN /\ Len(r) = Len(call.files) /\ Range(r) = ids
                                                      /\ Len(rp) = Len(call.files) /\ Range(rp) = ids
                                                      /\ \A i \in 1..Len(r) : score(r[i]) = score(rp[i])
                                                      /\ \A i, j \in 1..Len(r) : (i < j /\ score(r[i]) = score(r[j])) => IndexOf(Keys(call.files), r[i]) < IndexOf(Keys(call.files), r[j])
                                                      /\ \A i, j \in 1..Len(rp) : (i < j /\ score(rp[i]) = score(rp[j])) => IndexOf(Keys(call.permuted), rp[i]) < IndexOf(Keys(call.permuted), rp[j])
                                                      /\ (\A a, b \in ids : score(a) = score(b) => a = b) => r = rp

\* two files of equal score and one of another, ranked differently in the two orders
C5_Witness == /\ call.op = "top_files_permuted"
              /\ Len(call.files) = 3
              /\ call.result # call.result_permuted
              /\ \E i, j, k \in 1..3 : /\ i # j
                                       /\ call.result[i] = call.result_permuted[j]
                                       /\ call.result[k] = call.result_permuted[k]
                                       /\ TfIdf(call.query, Lookup(call.files, call.result[i]), call.idfs) = TfIdf(call.query, Lookup(call.files, call.result[j]), call.idfs)
                                       /\ TfIdf(call.query, Lookup(call.files, call.result[i]), call.idfs) # TfIdf(call.query, Lookup(call.files, call.result[k]), call.idfs)

\* C6: with an empty query and a mapping that is not empty, top_files and
\* top_sentences return the first n keys of the mapping in its order, every
\* score being 0 (for a sentence: matched_idf 0 and density 0).
C6_EmptyQuery == /\ (call.op = "top_files" /\ call.query = {} /\ call.files # <<>>) => /\ call.result = Take(Keys(call.files), call.n)
                                                                                       /\ \A i \in 1..Len(call.files) : call.file_to_tfidf[i].v = 0
                 /\ (call.op = "top_sentences" /\ call.query = {} /\ call.sentences # <<>>) => /\ ~call.raised
                                                                                               /\ call.result = Take(Keys(call.sentences), call.n)
                                                                                               /\ \A i \in 1..Len(call.sentences) : call.sentence_map[i].v.idf = 0 /\ call.sentence_map[i].v.density.num = 0

\* three sentences ranked by the empty query, two of them asked for
C6_Witness == /\ call.op = "top_sentences"
              /\ call.query = {}
              /\ Len(call.sentences) = 3
              /\ call.n = 2
              /\ call.result = <<call.sentences[1].k, call.sentences[2].k>>

\* C7: tokenize returns the lowercased tokens in order, without the stopwords
\* and without the tokens made only of punctuation characters.
C7_TokenizeDropsPunctuation == call.op = "tokenize" => call.words = SelectSeq(WordTokenize(Lower(call.document)), LAMBDA w : w \notin STOP_WORDS /\ ~AllPunctuation(w))

\* C8: compute_idfs returns the same table for a mapping and for the mapping
\* in any other insertion order.
C8_IdfOrderIndependent == call.op = "compute_idfs" => call.idfs = call.idfs_permuted

\* three documents in reverse order, a token of the table first seen in
\* different documents in the two orders
C8_Witness == /\ call.op = "compute_idfs"
              /\ Len(call.documents) = 3
              /\ call.permuted = Reverse(call.documents)
              /\ \E t \in DOMAIN call.idfs : /\ Count(call.documents[1].v, t) > 0
                                             /\ Count(call.documents[2].v, t) > 0
                                             /\ Count(call.documents[3].v, t) = 0

\* C9: compute_idfs of no documents is the empty table; top_files and
\* top_sentences of an empty mapping return the empty list; with n greater
\* than the number of items they return all the items; a query word outside
\* the idfs table adds 0 to every score and matched_idf; none raises.
C9_BoundaryInputs == /\ (call.op = "compute_idfs" /\ call.documents = <<>>) => DOMAIN call.idfs = {}
                     /\ (call.op = "top_files" /\ call.files = <<>>) => call.result = <<>>
                     /\ (call.op = "top_files" /\ call.n > Len(call.files)) => Len(call.result) = Len(call.files) /\ Range(call.result) = Range(Keys(call.files))
                     /\ call.op = "top_files" => \A i \in 1..Len(call.files) : call.file_to_tfidf[i].v = OccurrenceSum(call.query \cap DOMAIN call.idfs, call.files[i].v, call.idfs)
                     /\ call.op = "top_sentences" => ~call.raised
                     /\ (call.op = "top_sentences" /\ call.sentences = <<>>) => call.result = <<>>
                     /\ (call.op = "top_sentences" /\ call.n > Len(call.sentences)) => Len(call.result) = Len(call.sentences) /\ Range(call.result) = Range(Keys(call.sentences))
                     /\ call.op = "top_sentences" => \A i \in 1..Len(call.sentences) : call.sentence_map[i].v.idf = MatchedIdf(call.query \cap DOMAIN call.idfs, call.sentences[i].v, call.idfs)

\* more files asked for than there are, and a query word of the files that
\* the idfs table does not hold
C9_Witness == /\ call.op = "top_files"
              /\ Len(call.files) = 2
              /\ call.n = 3
              /\ Len(call.result) = 2
              /\ \E t \in call.query \ DOMAIN call.idfs : Count(call.files[1].v, t) > 0
              /\ \E t \in call.query \cap DOMAIN call.idfs : Count(call.files[1].v, t) > 0

\* C10: in main, every sentence passed to compute_idfs and top_sentences has
\* at least one token, and the density division never raises.
C10_NoEmptySentence == /\ \A i \in 1..Len(sentences) : Len(sentences[i].v) > 0
                       /\ pc # "ZeroDivisionError"

\* a run to the end whose top file holds a sentence of stopwords only beside
\* a sentence with tokens
C10_Witness == /\ pc = "done"
               /\ Len(filenames) = 1
               /\ \E i \in 1..Len(FileSentences(Lookup(files, filenames[1]))) : tokenize(FileSentences(Lookup(files, filenames[1]))[i]) = <<>>
               /\ Len(sentences) = 1
               /\ matches = <<sentences[1].k>>

====
